---- MODULE Spec2Model ----
(***************************************************************************)
(* A model of utils_nlp/bert/common_ner.py: the device selector, the       *)
(* classification preprocessor, the NER sequence aligner and the batch     *)
(* loader adapter.  Every call is a short run of the state machine: a      *)
(* Call action takes the arguments and runs the function's prologue, the   *)
(* following actions run the function's loop bodies and statements in      *)
(* program order, and the run ends in pc = "returned" or pc = "raised".    *)
(*                                                                         *)
(* Conventions.  A Python list is a sequence.  None is the empty tuple and *)
(* a value v that may be None is <<v>> (None / Some).  A dict is a         *)
(* function whose DOMAIN is its key set.  A text line is held as the       *)
(* sequence of its whitespace-separated words.  The floats 1.0 and 0.0 of  *)
(* the attention mask are the integers 1 and 0.                            *)
(***************************************************************************)
EXTENDS Integers, Sequences, FiniteSets, TLC

\* Max supported sequence length.
BERT_MAX_LEN == 512

\* Bounds of the explored inputs.
MaxLines == 2
MaxWords == 2
MaxReq == 3
MaxTokens == 2
MaxLong == 1
MaxCuda == 2

None == <<>>
Some(v) == <<v>>
IsNone(o) == Len(o) = 0
Val(o) == o[1]

Min(a, b) == IF a < b THEN a ELSE b

SeqsUpTo(S, n) == UNION {[1..k -> S] : k \in 0..n}

\* The sum of s[lo..hi], by halves.
RECURSIVE SumRange(_, _, _)
SumRange(s, lo, hi) ==
    IF lo > hi THEN 0
    ELSE IF lo = hi THEN s[lo]
    ELSE LET mid == (lo + hi) \div 2
         IN SumRange(s, lo, mid) + SumRange(s, mid + 1, hi)

SumSeq(s) == SumRange(s, 1, Len(s))

\* n copies of v: the Python [v] * n, which is empty for n <= 0.
Repeat(v, n) == [i \in 1..n |-> v]

\* The Python slice x[0:stop]: a negative stop counts from the end.
PySlice(x, stop) ==
    LET e == IF stop < 0 THEN (IF Len(x) + stop < 0 THEN 0 ELSE Len(x) + stop)
             ELSE Min(stop, Len(x))
    IN SubSeq(x, 1, e)

\* The Python zip of two lists: as long as the shorter one.
Zip(a, b) == [i \in 1..Min(Len(a), Len(b)) |-> <<a[i], b[i]>>]

(***************************************************************************)
(* The external tokenizer, as a table over the words of the model.         *)
(***************************************************************************)
Words == {"Playing", "football"}

\* str.lower on a word.
Lower(w) == IF w = "Playing" THEN "playing" ELSE w

\* wordpiece_tokenizer.tokenize of one word of the uncased vocabulary: a
\* word that cannot be split into vocabulary pieces is the unknown token.
WordPiece(word) ==
    CASE word = "playing" -> <<"play", "##ing">>
      [] word = "football" -> <<"football">>
      [] OTHER -> <<"[UNK]">>

Vocab ==
    ("[PAD]" :> 0) @@ ("[UNK]" :> 100) @@ ("[CLS]" :> 101) @@ ("[SEP]" :> 102)
    @@ ("play" :> 2377) @@ ("##ing" :> 2075) @@ ("football" :> 2374)

convert_tokens_to_ids(toks) == [i \in 1..Len(toks) |-> Vocab[toks[i]]]

(***************************************************************************)
(* preprocess_ner_tokens, as pure steps.                                   *)
(***************************************************************************)
Tags == {"VERB", "NOUN", "X"}
TrailingTags == {"X", "O"}

LabelMaps ==
    { <<>>,
      ("O" :> 0) @@ ("VERB" :> 1) @@ ("NOUN" :> 2) @@ ("X" :> 3),
      ("O" :> 0) @@ ("VERB" :> 1) @@ ("NOUN" :> 2) }

\* The clamp of a requested length to the ceiling.
ClampNoCeiling(n) == n
ClampLen(n) == IF n > BERT_MAX_LEN THEN BERT_MAX_LEN ELSE n

\* The artificial label list of a call without labels: one str "O" per
\* line.  Iterating a str yields its characters, and "O" has one.
ArtificialLabels(text) == [i \in 1..Len(text) |-> <<"O">>]

\* The inner loop over the pieces of one word: the word's tag at count 0,
\* then the loop variable tag is overwritten with the trailing piece tag.
PieceTags(tag, sub_words, trailing_piece_tag) ==
    [c \in 1..Len(sub_words) |-> IF c - 1 > 0 THEN trailing_piece_tag ELSE tag]

\* The loop over zip(words, t_labels), from pair k on; tag is rebound to the
\* pair's own tag at the start of every iteration.
RECURSIVE AlignFrom(_, _, _)
AlignFrom(pairs, k, trailing_piece_tag) ==
    IF k > Len(pairs) THEN [tokens |-> <<>>, new_labels |-> <<>>]
    ELSE LET sub_words == WordPiece(pairs[k][1])
             rest == AlignFrom(pairs, k + 1, trailing_piece_tag)
         IN [tokens |-> sub_words \o rest.tokens,
             new_labels |-> PieceTags(pairs[k][2], sub_words, trailing_piece_tag)
                            \o rest.new_labels]

\* The same loop with the tag variable never rebound once overwritten.
RECURSIVE AlignCarry(_, _, _, _)
AlignCarry(pairs, k, trailing_piece_tag, carried) ==
    IF k > Len(pairs) THEN [tokens |-> <<>>, new_labels |-> <<>>]
    ELSE LET sub_words == WordPiece(pairs[k][1])
             tag == IF carried THEN trailing_piece_tag ELSE pairs[k][2]
             rest == AlignCarry(pairs, k + 1, trailing_piece_tag,
                                carried \/ Len(sub_words) > 1)
         IN [tokens |-> sub_words \o rest.tokens,
             new_labels |-> PieceTags(tag, sub_words, trailing_piece_tag)
                            \o rest.new_labels]

AlignWordsCarried(t, t_labels, trailing_piece_tag) ==
    AlignCarry(Zip([i \in 1..Len(t) |-> Lower(t[i])], t_labels), 1,
               trailing_piece_tag, FALSE)

\* Lines 211-221: lower-case the line, split it, and flatten the words'
\* pieces and tags.
AlignWords(t, t_labels, trailing_piece_tag) ==
    AlignFrom(Zip([i \in 1..Len(t) |-> Lower(t[i])], t_labels), 1,
              trailing_piece_tag)

\* Right padding up to max_len (lines 133 and 234-239).
PadTo(s, pad, max_len) == s \o Repeat(pad, max_len - Len(s))

\* Lines 241-246: the mask over the padded tag list.
TrailingMaskPadFalse(padded_labels, trailing_piece_tag) ==
    [p \in 1..Len(padded_labels) |->
        padded_labels[p] # trailing_piece_tag /\ padded_labels[p] # "O"]
TrailingMask(padded_labels, trailing_piece_tag) ==
    [p \in 1..Len(padded_labels) |-> padded_labels[p] # trailing_piece_tag]

\* Line 248: the truth value of label_map.
Truthy(label_map) == ~IsNone(label_map) /\ DOMAIN Val(label_map) # {}

\* Lines 257-265: the returned tuple.
ReturnAlwaysLabels(label_available, ids, masks, trailing, label_ids) ==
    <<ids, masks, trailing, label_ids>>
ReturnValue(label_available, ids, masks, trailing, label_ids) ==
    IF label_available THEN <<ids, masks, trailing, label_ids>>
    ELSE <<ids, masks, trailing>>

(***************************************************************************)
(* preprocess_classification_tokens, as pure steps.                        *)
(***************************************************************************)
\* Line 129: truncate and add the sentence markers.
AddMarkers(x, max_len) == <<"[CLS]">> \o PySlice(x, max_len - 2) \o <<"[SEP]">>

\* Line 135: the input mask of one padded id list.
InputMask(y) == [i \in 1..Len(y) |-> Min(1, y[i])]

\* Lines 120-136, after the argument is taken: the two returned lists.
ClassificationTokens(toks, max_len) ==
    LET clamped == ClampLen(max_len)
        marked == [k \in 1..Len(toks) |-> AddMarkers(toks[k], clamped)]
        ids == [k \in 1..Len(toks) |-> convert_tokens_to_ids(marked[k])]
        padded == [k \in 1..Len(toks) |-> PadTo(ids[k], 0, clamped)]
    IN <<padded, [k \in 1..Len(toks) |-> InputMask(padded[k])]>>

(***************************************************************************)
(* get_device, as a pure step.                                             *)
(***************************************************************************)
\* Lines 48-58: the number of devices to use when CUDA is available.
ResolveDevicesNoClamp(num_devices, num_cuda_devices) ==
    IF IsNone(num_devices) THEN num_cuda_devices ELSE Val(num_devices)
ResolveDevices(num_devices, num_cuda_devices) ==
    IF IsNone(num_devices) THEN num_cuda_devices
    ELSE IF Val(num_devices) > num_cuda_devices THEN num_cuda_devices
    ELSE Val(num_devices)

(***************************************************************************)
(* create_data_loader: the library calls it makes.                         *)
(***************************************************************************)
SampleMethods == {"random", "sequential", "distributed"}

\* Lines 309-319: the sampler named by sample_method; None is the else
\* branch, which raises.
SamplerForDefaulting(sample_method) ==
    IF sample_method \in SampleMethods THEN Some(sample_method) ELSE Some("random")
SamplerFor(sample_method) ==
    IF sample_method \in SampleMethods THEN Some(sample_method) ELSE None

\* torch.tensor(rows, dtype=torch.long) accepts a list of rows of equal
\* length whose elements are numbers (numeric: they are not str).
Convertible(rows, numeric) ==
    /\ numeric
    /\ \A i, j \in 1..Len(rows) : Len(rows[i]) = Len(rows[j])

\* Line 301: the truth value of label_ids.
HasLabels(label_ids) == ~IsNone(label_ids) /\ Len(Val(label_ids)) > 0

(***************************************************************************)
(* The inputs explored.                                                    *)
(***************************************************************************)
\* The word counts of the lines of a batch: at most MaxLines lines and at
\* most MaxWords words in all.
LineShapes == {s \in SeqsUpTo(0..MaxWords, MaxLines) : SumSeq(s) <= MaxWords}

RECURSIVE BatchesOf(_)
BatchesOf(shape) ==
    IF Len(shape) = 0 THEN {<<>>}
    ELSE {<<l>> \o r : l \in [1..Head(shape) -> Words], r \in BatchesOf(Tail(shape))}

\* Caller-supplied labels: one tag sequence per line, one tag per word.
RECURSIVE LabelsFor(_)
LabelsFor(text) ==
    IF Len(text) = 0 THEN {<<>>}
    ELSE {<<l>> \o r : l \in [1..Len(Head(text)) -> Tags], r \in LabelsFor(Tail(text))}

\* The requested lengths: the short ones for every batch, the ceiling and
\* a length over it for the batches of at most MaxLong lines and words.
LengthsFor(n_lines, n_items) ==
    (0..MaxReq) \cup (IF n_lines <= MaxLong /\ n_items <= MaxLong
                      THEN {BERT_MAX_LEN, 1000} ELSE {})

\* Pre-tokenized sequences for the classification preprocessor.
BodyTokens == {"play", "[PAD]"}
TokenBatches == SeqsUpTo(SeqsUpTo(BodyTokens, MaxTokens), MaxLines)

\* Lists of rows for the batch loader: rows of one or two numbers.
Matrices ==
    {[i \in 1..Len(s) |-> Repeat(1, s[i])] : s \in SeqsUpTo(1..2, MaxLines)}
\* Label rows as preprocess_ner_tokens returns them without a label_map.
StringLabels == <<<<"O">>>>

Devices == {"gpu", "cpu", "tpu"}

(***************************************************************************)
(* The state.                                                              *)
(***************************************************************************)
VARIABLES
    pc,                       \* where the running call stands
    op,                       \* the function called
    args,                     \* its arguments, as passed
    warned,                   \* the warnings and notices emitted
    ret,                      \* the returned value
    err,                      \* the exception raised
    max_seq_length,           \* preprocess_ner_tokens: locals
    label_available,
    labels,
    idx,
    tokens,
    new_labels,
    input_ids_all,
    input_mask_all,
    label_ids_all,
    trailing_token_mask_all,
    work,                     \* create_data_loader: the library calls made
    tensor_data,              \*   and its locals
    sampler

ner_locals ==
    <<max_seq_length, label_available, labels, idx, tokens, new_labels,
      input_ids_all, input_mask_all, label_ids_all, trailing_token_mask_all>>

dl_locals == <<work, tensor_data, sampler>>

vars == <<pc, op, args, warned, ret, err, ner_locals, dl_locals>>

Init ==
    /\ pc = "idle"
    /\ op = "none"
    /\ args = <<>>
    /\ warned = <<>>
    /\ ret = <<>>
    /\ err = "none"
    /\ max_seq_length = 0
    /\ label_available = FALSE
    /\ labels = <<>>
    /\ idx = 0
    /\ tokens = <<>>
    /\ new_labels = <<>>
    /\ input_ids_all = <<>>
    /\ input_mask_all = <<>>
    /\ label_ids_all = <<>>
    /\ trailing_token_mask_all = <<>>
    /\ work = <<>>
    /\ tensor_data = <<>>
    /\ sampler = None

(***************************************************************************)
(* preprocess_ner_tokens.                                                  *)
(***************************************************************************)
\* Lines 192-209: the clamp, the artificial labels, the empty result lists.
CallNer ==
    /\ pc = "idle"
    /\ \E shape \in LineShapes :
       \E text \in BatchesOf(shape) :
       \E given \in {None} \cup {Some(l) : l \in LabelsFor(text)} :
       \E len \in LengthsFor(Len(text), SumSeq(shape)) :
       \E label_map \in {None} \cup {Some(m) : m \in LabelMaps} :
       \E trailing_piece_tag \in TrailingTags :
          /\ args' = [text |-> text, max_seq_length |-> len, labels |-> given,
                      label_map |-> label_map,
                      trailing_piece_tag |-> trailing_piece_tag]
          /\ warned' = IF len > BERT_MAX_LEN
                       THEN <<"setting max_len to max allowed tokens">>
                       ELSE <<>>
          /\ max_seq_length' = ClampLen(len)
          /\ label_available' = ~IsNone(given)
          /\ labels' = IF IsNone(given) THEN ArtificialLabels(text) ELSE Val(given)
    /\ op' = "ner"
    /\ pc' = "ner_for"
    /\ idx' = 1
    /\ input_ids_all' = <<>>
    /\ input_mask_all' = <<>>
    /\ label_ids_all' = <<>>
    /\ trailing_token_mask_all' = <<>>
    /\ UNCHANGED <<ret, err, tokens, new_labels, dl_locals>>

\* Lines 210-221: the next (line, labels) pair of zip(text, labels) is
\* aligned into the flat tokens and new_labels.
NerAlign ==
    /\ pc = "ner_for"
    /\ idx <= Len(Zip(args.text, labels))
    /\ LET pair == Zip(args.text, labels)[idx]
           flat == AlignWords(pair[1], pair[2], args.trailing_piece_tag)
       IN /\ tokens' = flat.tokens
          /\ new_labels' = flat.new_labels
    /\ pc' = "ner_aligned"
    /\ UNCHANGED <<op, args, warned, ret, err, max_seq_length, label_available,
                   labels, idx, input_ids_all, input_mask_all, label_ids_all,
                   trailing_token_mask_all, dl_locals>>

\* Lines 223-255: truncation, ids, attention mask, padding, trailing mask
\* and label ids of the aligned line.  label_map[label] raises KeyError for
\* a label that is not a key; the trailing mask is appended before that.
NerEncode ==
    /\ pc = "ner_aligned"
    /\ LET cut == Len(tokens) > max_seq_length
           toks == IF cut THEN PySlice(tokens, max_seq_length) ELSE tokens
           cut_labels == IF cut THEN PySlice(new_labels, max_seq_length)
                         ELSE new_labels
           ids == convert_tokens_to_ids(toks)
           input_ids == PadTo(ids, 0, max_seq_length)
           input_mask == PadTo(Repeat(1, Len(ids)), 0, max_seq_length)
           padded == cut_labels \o Repeat("O", max_seq_length - Len(ids))
           mapped == Truthy(args.label_map)
           missing == mapped /\ \E p \in 1..Len(padded) :
                                   padded[p] \notin DOMAIN Val(args.label_map)
       IN /\ tokens' = toks
          /\ new_labels' = padded
          /\ trailing_token_mask_all' =
               Append(trailing_token_mask_all,
                      TrailingMask(padded, args.trailing_piece_tag))
          /\ IF missing
             THEN /\ pc' = "raised"
                  /\ err' = "KeyError"
                  /\ UNCHANGED <<idx, input_ids_all, input_mask_all, label_ids_all>>
             ELSE /\ pc' = "ner_for"
                  /\ idx' = idx + 1
                  /\ input_ids_all' = Append(input_ids_all, input_ids)
                  /\ input_mask_all' = Append(input_mask_all, input_mask)
                  /\ label_ids_all' =
                       Append(label_ids_all,
                              IF mapped
                              THEN [p \in 1..Len(padded) |->
                                      Val(args.label_map)[padded[p]]]
                              ELSE padded)
                  /\ UNCHANGED err
    /\ UNCHANGED <<op, args, warned, ret, max_seq_length, label_available, labels,
                   dl_locals>>

\* Lines 257-265: the loop is over; three or four lists are returned.
NerReturn ==
    /\ pc = "ner_for"
    /\ idx > Len(Zip(args.text, labels))
    /\ ret' = ReturnValue(label_available, input_ids_all, input_mask_all,
                          trailing_token_mask_all, label_ids_all)
    /\ pc' = "returned"
    /\ UNCHANGED <<op, args, warned, err, ner_locals, dl_locals>>

(***************************************************************************)
(* preprocess_classification_tokens.                                       *)
(***************************************************************************)
\* Lines 107-136.
PreprocessClassificationTokens ==
    /\ pc = "idle"
    /\ \E toks \in TokenBatches :
       \E max_len \in LengthsFor(Len(toks),
                                 SumSeq([k \in 1..Len(toks) |-> Len(toks[k])])) :
          /\ args' = [tokens |-> toks, max_len |-> max_len]
          /\ warned' = IF max_len > BERT_MAX_LEN
                       THEN <<"setting max_len to max allowed tokens">>
                       ELSE <<>>
          /\ ret' = ClassificationTokens(toks, max_len)
    /\ op' = "cls"
    /\ pc' = "returned"
    /\ UNCHANGED <<err, ner_locals, dl_locals>>

(***************************************************************************)
(* get_device.                                                             *)
(***************************************************************************)
\* Lines 34-64.  num_cuda_devices is what torch.cuda.device_count() gives;
\* torch.cuda.is_available() holds when it is positive.
GetDevice ==
    /\ pc = "idle"
    /\ \E device \in Devices :
       \E num_devices \in {None} \cup {Some(n) : n \in 0..(MaxCuda + 1)} :
       \E num_cuda_devices \in 0..MaxCuda :
          /\ args' = [device |-> device, num_devices |-> num_devices,
                      num_cuda_devices |-> num_cuda_devices]
          /\ IF device = "gpu"
             THEN IF num_cuda_devices > 0
                  THEN /\ ret' = <<"cuda:0",
                                   ResolveDevices(num_devices, num_cuda_devices)>>
                       /\ warned' = IF ~IsNone(num_devices)
                                       /\ Val(num_devices) > num_cuda_devices
                                    THEN <<"Only some devices are available">>
                                    ELSE <<>>
                       /\ pc' = "returned"
                       /\ UNCHANGED err
                  ELSE /\ err' = "CUDA device not available"
                       /\ pc' = "raised"
                       /\ UNCHANGED <<ret, warned>>
             ELSE IF device = "cpu"
                  THEN /\ ret' = <<"cpu", 0>>
                       /\ pc' = "returned"
                       /\ UNCHANGED <<err, warned>>
                  ELSE /\ err' = "Only 'cpu' and 'gpu' devices are supported."
                       /\ pc' = "raised"
                       /\ UNCHANGED <<ret, warned>>
    /\ op' = "device"
    /\ UNCHANGED <<ner_locals, dl_locals>>

(***************************************************************************)
(* create_data_loader.  The samplers and the loader are taken to           *)
(* construct; torch.tensor and TensorDataset raise on lists they cannot    *)
(* take.                                                                   *)
(***************************************************************************)
\* Lines 298-299: the id and mask lists are converted to tensors.
LoaderTensors ==
    /\ pc = "idle"
    /\ \E input_ids \in Matrices :
       \E input_mask \in Matrices :
       \E strings \in BOOLEAN :
       \E label_ids \in IF strings THEN {Some(StringLabels)}
                        ELSE {None} \cup {Some(m) : m \in Matrices} :
       \E sample_method \in SampleMethods \cup {"shuffled"} :
          /\ args' = [input_ids |-> input_ids, input_mask |-> input_mask,
                      label_ids |-> label_ids, label_strings |-> strings,
                      sample_method |-> sample_method, batch_size |-> 32]
          /\ IF Convertible(input_ids, TRUE) /\ Convertible(input_mask, TRUE)
             THEN /\ pc' = "dl_dataset"
                  /\ UNCHANGED err
             ELSE /\ pc' = "raised"
                  /\ err' = "torch.tensor: ValueError"
    /\ op' = "loader"
    /\ work' = <<"tensor">>
    /\ UNCHANGED <<warned, ret, ner_locals, tensor_data, sampler>>

\* Lines 301-307: the label tensor, when label_ids is true, and the
\* TensorDataset, which asserts that its tensors have as many rows.
LoaderDataset ==
    /\ pc = "dl_dataset"
    /\ LET with_labels == HasLabels(args.label_ids)
           sizes == <<Len(args.input_ids), Len(args.input_mask)>>
                    \o (IF with_labels THEN <<Len(Val(args.label_ids))>> ELSE <<>>)
       IN IF with_labels /\ ~Convertible(Val(args.label_ids), ~args.label_strings)
          THEN /\ pc' = "raised"
               /\ err' = "torch.tensor: ValueError"
               /\ work' = Append(work, "tensor")
               /\ UNCHANGED tensor_data
          ELSE /\ work' = (IF with_labels THEN Append(work, "tensor") ELSE work)
                          \o <<"dataset">>
               /\ IF \A i \in 1..Len(sizes) : sizes[i] = sizes[1]
                  THEN /\ pc' = "dl_sampler"
                       /\ tensor_data' = sizes
                       /\ UNCHANGED err
                  ELSE /\ pc' = "raised"
                       /\ err' = "TensorDataset: AssertionError"
                       /\ UNCHANGED tensor_data
    /\ UNCHANGED <<op, args, warned, ret, ner_locals, sampler>>

\* Lines 309-319: the sampler is chosen by name, or the name is rejected.
LoaderSampler ==
    /\ pc = "dl_sampler"
    /\ IF IsNone(SamplerFor(args.sample_method))
       THEN /\ pc' = "raised"
            /\ err' = "ValueError: Invalid sample_method value"
            /\ UNCHANGED <<work, sampler>>
       ELSE /\ pc' = "dl_loader"
            /\ sampler' = SamplerFor(args.sample_method)
            /\ work' = Append(work, "sampler")
            /\ UNCHANGED err
    /\ UNCHANGED <<op, args, warned, ret, ner_locals, tensor_data>>

\* Lines 321-325: the loader is built and returned.
LoaderBuild ==
    /\ pc = "dl_loader"
    /\ ret' = [dataset |-> tensor_data, sampler |-> Val(sampler),
               batch_size |-> args.batch_size]
    /\ work' = Append(work, "loader")
    /\ pc' = "returned"
    /\ UNCHANGED <<op, args, warned, err, ner_locals, tensor_data, sampler>>

Next ==
    \/ CallNer
    \/ NerAlign
    \/ NerEncode
    \/ NerReturn
    \/ PreprocessClassificationTokens
    \/ GetDevice
    \/ LoaderTensors
    \/ LoaderDataset
    \/ LoaderSampler
    \/ LoaderBuild

Spec == Init /\ [][Next]_vars

(***************************************************************************)
(* What the claims are stated in: the words, pieces and tags of a line,    *)
(* read off the arguments of the call.                                     *)
(***************************************************************************)
NPieces(word) == Len(WordPiece(Lower(word)))
TotalPieces(line) == SumSeq([j \in 1..Len(line) |-> NPieces(line[j])])
\* The number of pieces before word j of the line.
Offset(line, j) == SumSeq([i \in 1..(j - 1) |-> NPieces(line[i])])
IsFirstPiece(line, p) == \E j \in 1..Len(line) : p = Offset(line, j) + 1
CountTrue(m, n) == Cardinality({p \in 1..n : m[p]})

\* A line has gone through lines 223-255; LastLine is its index, and tokens
\* and new_labels are its truncated tokens and its padded tags.
JustEncoded ==
    /\ op = "ner"
    /\ pc \in {"ner_for", "returned", "raised"}
    /\ Len(trailing_token_mask_all) > 0
LastLine == IF pc = "raised" THEN idx ELSE idx - 1
LastMask == trailing_token_mask_all[Len(trailing_token_mask_all)]

\* C1: every id, attention-mask, primary-mask and label sequence that
\* preprocess_ner_tokens builds or returns has length min(max_seq_length,
\* 512); every line of the batch is returned, and the call fails on no
\* length (its only failure is the key lookup in a label map).
C1_NerLengths ==
    op = "ner" =>
      LET L == Min(args.max_seq_length, BERT_MAX_LEN)
      IN /\ max_seq_length = L
         /\ \A k \in 1..Len(input_ids_all) :
               /\ Len(input_ids_all[k]) = L
               /\ Len(input_mask_all[k]) = L
               /\ Len(label_ids_all[k]) = L
         /\ \A k \in 1..Len(trailing_token_mask_all) :
               Len(trailing_token_mask_all[k]) = L
         /\ pc = "returned" =>
               /\ \A c \in 1..Len(ret) :
                     /\ Len(ret[c]) = Len(args.text)
                     /\ \A k \in 1..Len(ret[c]) : Len(ret[c][k]) = L
         /\ pc = "raised" => err = "KeyError" /\ Truthy(args.label_map)

C1_Witness ==
    /\ op = "ner"
    /\ pc = "returned"
    /\ args.max_seq_length = 1000
    /\ warned # <<>>
    /\ Len(ret[1]) = 1
    /\ Len(ret[1][1]) = BERT_MAX_LEN
    /\ Len(ret[2][1]) = BERT_MAX_LEN
    /\ Len(ret[3][1]) = BERT_MAX_LEN

\* C2: without labels every word of a line is encoded: when the pieces of
\* all its words are fewer than max_seq_length, the attention mask sums to
\* their number.
C2_NoLabelsEncodeEveryWord ==
    (op = "ner" /\ IsNone(args.labels)) =>
      \A k \in 1..Len(input_mask_all) :
         TotalPieces(args.text[k]) < max_seq_length =>
            SumSeq(input_mask_all[k]) = TotalPieces(args.text[k])

\* C3: with one caller-supplied tag per word, the flat tags of a line
\* before truncation and padding are, word by word, the word's own tag at
\* its first piece and the trailing piece tag at its further pieces.
C3_FlatTags ==
    (op = "ner" /\ pc = "ner_aligned" /\ label_available) =>
      LET line == args.text[idx]
          tags == Val(args.labels)[idx]
      IN /\ Len(new_labels) = TotalPieces(line)
         /\ Len(tokens) = TotalPieces(line)
         /\ \A j \in 1..Len(line) : \A c \in 1..NPieces(line[j]) :
               new_labels[Offset(line, j) + c] =
                  IF c = 1 THEN tags[j] ELSE args.trailing_piece_tag

C3_Witness ==
    /\ op = "ner"
    /\ pc = "ner_aligned"
    /\ label_available
    /\ args.trailing_piece_tag = "X"
    /\ tokens = <<"play", "##ing", "football">>
    /\ new_labels = <<"VERB", "X", "NOUN">>

C5_SuppliedMapAlwaysApplied ==
    (JustEncoded /\ ~IsNone(args.label_map)) =>
      LET map == Val(args.label_map)
          absent == \E p \in 1..Len(new_labels) : new_labels[p] \notin DOMAIN map
      IN /\ absent <=> (pc = "raised" /\ err = "KeyError")
         /\ ~absent =>
               label_ids_all[LastLine] =
                  [p \in 1..Len(new_labels) |-> map[new_labels[p]]]

\* C6: the returned tuple has the label lists exactly when the caller
\* supplied labels, and is the three lists otherwise, label map or not;
\* each returned list has one entry per line.
C6_ReturnShape ==
    (op = "ner" /\ pc = "returned") =>
      /\ Len(ret) = 4 <=> ~IsNone(args.labels)
      /\ IsNone(args.labels) => Len(ret) = 3
      /\ ret[1] = input_ids_all
      /\ ret[2] = input_mask_all
      /\ ret[3] = trailing_token_mask_all
      /\ \A c \in 1..Len(ret) : Len(ret[c]) = Len(args.text)

C6_Witness ==
    /\ op = "ner"
    /\ pc = "returned"
    /\ IsNone(args.labels)
    /\ Truthy(args.label_map)
    /\ Len(args.text) = 2
    /\ Len(ret) = 3

\* C7: for every max_len, each returned id list is the ids of the start
\* marker, the first max_len - 2 body tokens and the end marker, padded
\* with 0 up to the clamped max_len, and the mask is 1 exactly at the
\* nonzero ids.
C7_MarkedTruncatedPadded ==
    (op = "cls" /\ pc = "returned") =>
      LET L == Min(args.max_len, BERT_MAX_LEN)
          keep(x) == IF L - 2 < 0 THEN 0 ELSE Min(L - 2, Len(x))
          marked(x) == <<Vocab["[CLS]"]>>
                       \o [i \in 1..keep(x) |-> Vocab[x[i]]]
                       \o <<Vocab["[SEP]"]>>
          expected(x) == marked(x) \o [i \in 1..(L - Len(marked(x))) |-> 0]
      IN /\ Len(ret) = 2
         /\ Len(ret[1]) = Len(args.tokens)
         /\ Len(ret[2]) = Len(args.tokens)
         /\ \A k \in 1..Len(args.tokens) :
               /\ ret[1][k] = expected(args.tokens[k])
               /\ Len(ret[2][k]) = Len(ret[1][k])
               /\ \A p \in 1..Len(ret[1][k]) :
                     ret[2][k][p] = IF ret[1][k][p] # 0 THEN 1 ELSE 0

\* C7, on the lengths that leave room for the two markers.
C7_FromTwoUp ==
    (op = "cls" /\ args.max_len >= 2) => C7_MarkedTruncatedPadded

\* The lists given to create_data_loader can be made tensors and a dataset.
LoaderInputsFit ==
    /\ Convertible(args.input_ids, TRUE)
    /\ Convertible(args.input_mask, TRUE)
    /\ Len(args.input_ids) = Len(args.input_mask)
    /\ HasLabels(args.label_ids) =>
          /\ Convertible(Val(args.label_ids), ~args.label_strings)
          /\ Len(Val(args.label_ids)) = Len(args.input_ids)

UnknownMethod == op = "loader" /\ args.sample_method \notin SampleMethods

\* C8, as claimed: an unknown sample_method is rejected before any tensor,
\* dataset, sampler or loader is made, so no other error comes first.
C8_RejectedBeforeAnyWork ==
    UnknownMethod =>
      /\ work = <<>>
      /\ pc = "raised" => err = "ValueError: Invalid sample_method value"

\* C8, amended: an unknown sample_method is rejected after the tensors and
\* the dataset are made and before any sampler or loader is; the call never
\* returns, and its error is the invalid-sample_method one exactly when the
\* tensors and the dataset could be made.
C8_RejectedAfterDataset ==
    UnknownMethod =>
      /\ pc \in {"dl_dataset", "dl_sampler", "raised"}
      /\ \A i \in 1..Len(work) : work[i] \in {"tensor", "dataset"}
      /\ sampler = None
      /\ pc = "raised" =>
            /\ err = "ValueError: Invalid sample_method value" <=> LoaderInputsFit
            /\ err = "ValueError: Invalid sample_method value" =>
                  /\ work[1] = "tensor"
                  /\ work[Len(work)] = "dataset"

C8_Witness ==
    /\ UnknownMethod
    /\ pc = "raised"
    /\ err = "ValueError: Invalid sample_method value"
    /\ work = <<"tensor", "tensor", "dataset">>

\* C9: "gpu" with an accelerator present never fails and returns the
\* available count when the cap is absent or above it (warning in the
\* latter case) and the cap otherwise, never more than is available; the
\* only failures are "gpu" without an accelerator and an unknown kind.
C9_GetDevice ==
    op = "device" =>
      LET cap == args.num_devices
          n == args.num_cuda_devices
      IN /\ (args.device = "gpu" /\ n > 0) =>
               /\ pc = "returned"
               /\ ret[1] = "cuda:0"
               /\ ret[2] <= n
               /\ ret[2] = IF IsNone(cap) THEN n
                           ELSE IF Val(cap) > n THEN n ELSE Val(cap)
               /\ warned # <<>> <=> (~IsNone(cap) /\ Val(cap) > n)
         /\ pc = "raised" <=>
               \/ args.device = "gpu" /\ n = 0
               \/ args.device \notin {"cpu", "gpu"}
         /\ (args.device = "gpu" /\ n = 0) => err = "CUDA device not available"
         /\ args.device \notin {"cpu", "gpu"} =>
               err = "Only 'cpu' and 'gpu' devices are supported."
         /\ args.device = "cpu" => ret = <<"cpu", 0>>

C9_Witness ==
    /\ op = "device"
    /\ pc = "returned"
    /\ args.device = "gpu"
    /\ args.num_cuda_devices = 2
    /\ args.num_devices = Some(3)
    /\ ret = <<"cuda:0", 2>>
    /\ warned # <<>>

\* C10: with one caller-supplied tag per word, whatever the tags, the
\* primary-subword mask over the real tokens of a line is true exactly at
\* the first piece of each word, so an untruncated line has as many true
\* entries among its real tokens as it has words.
C10_MaskMarksFirstPieces ==
    (JustEncoded /\ label_available) =>
      LET line == args.text[LastLine]
      IN /\ \A p \in 1..Len(tokens) : LastMask[p] = IsFirstPiece(line, p)
         /\ Len(tokens) = TotalPieces(line) =>
               CountTrue(LastMask, Len(tokens)) = Len(line)

\* C10, on the lines none of whose tags is the trailing piece tag.
C10_UnlessTagIsSentinel ==
    (JustEncoded /\ label_available
       /\ \A j \in 1..Len(args.text[LastLine]) :
             Val(args.labels)[LastLine][j] # args.trailing_piece_tag)
    => C10_MaskMarksFirstPieces

====
